---- MODULE Spec2Model ----
(***************************************************************************)
(* Model of app/main.py of lastfm-charts-backend: one chart request        *)
(* (lastfm_chart), the chart assembly (create_chart) with its request      *)
(* scoped image cache, the image fetcher (get_img), the artist artwork     *)
(* scraper (scrape_artists_for_chart) and the grid compositor              *)
(* (create_graph).                                                         *)
(*                                                                         *)
(* Network peers (statistics provider, listing pages, image hosts) are     *)
(* the environment: every response is chosen with \E when it arrives.      *)
(* An exception nobody catches ends the request as a server error          *)
(* (outcome.kind = "crash").                                               *)
(***************************************************************************)
EXTENDS Integers, Sequences, FiniteSets, TLC

VARIABLES
    pc,             \* position of the request coroutine
    datatype,       \* path parameter {datatype}
    width,          \* query parameter width
    height,         \* query parameter height
    response,       \* the provider's answer as lastfm_chart received it
    content,        \* local `content` of lastfm_chart (unbound until response.json() returns)
    items,          \* the slice create_chart iterates (albums / iterator / tracks [: width * height])
    i,              \* 1-based position of the loop in items
    chart,          \* local `chart` of create_chart: list of (label, image bytes)
    chart_data,     \* local `chart_data` of create_chart: image reference -> bytes
    img,            \* local `img` of create_chart (unbound until a compositor call returns)
    lastget,        \* the running / last get_img invocation: its argument and the result of its two GETs
    amount,         \* argument `amount` of scrape_artists_for_chart
    tasks,          \* the page fetch tasks of scrape_artists_for_chart, by page number
    done_order,     \* page numbers in the order their fetches completed
    scraped_images, \* what scrape_artists_for_chart returned
    net,            \* network requests issued so far, by kind
    calls,          \* invocations of get_img so far, by argument
    outcome         \* what the caller of the endpoint receives

vars == <<pc, datatype, width, height, response, content, items, i, chart, chart_data, img,
          lastget, amount, tasks, done_order, scraped_images, net, calls, outcome>>

-----------------------------------------------------------------------------
(* Bounds of the model *)

MaxItems == 2       \* longest item list the provider returns
MaxRows == 2        \* most artist rows on one listing page
MaxDim == 30        \* largest width / height explored by the validation and compositor runs

(* Program constants *)

MaxGridSum == 31    \* main.py:46
TileSize == 300     \* main.py:210
MaxCanvas == 2100   \* main.py:223
PageSize == 50      \* main.py:245

DATATYPES == {"albums", "artists", "recenttracks"}

NO_IMAGE_PLACEHOLDER == "300x300/2a96cbd8b46e442fc41c2b86b821562f.png"

-----------------------------------------------------------------------------
(* Values *)

\* A JSON scalar as json() decodes it: a Python int or a Python str.
PyInt(n) == [t |-> "int", n |-> n]
PyStr(s) == [t |-> "str", s |-> s]

\* Python's a == b on such scalars: a str never equals an int.
PyEq(a, b) == a = b

\* str(x) as an f-string formats it.
PyFormat(x) == IF x.t = "str" THEN x.s ELSE ToString(x.n)

Unbound == [bound |-> FALSE]

NoOutcome == [kind |-> "none", status |-> 0, detail |-> ""]
HTTPException(status_code, detail) == [kind |-> "http_error", status |-> status_code, detail |-> detail]
Crash(exc) == [kind |-> "crash", status |-> 500, detail |-> exc]
StreamingResponse == [kind |-> "image", status |-> 200, detail |-> "image/png"]

Min(a, b) == IF a < b THEN a ELSE b

\* l[:n] for n >= 0
Take(l, n) == SubSeq(l, 1, Min(Len(l), n))

\* math.ceil(a / b) for a >= 0, b > 0
Ceil(a, b) == (a + b - 1) \div b

-----------------------------------------------------------------------------
(* Pure functions of main.py *)

\* def format_plays(amount)
format_plays(plays) ==
    IF PyEq(plays, PyInt(1)) THEN "play" ELSE "plays"

\* The label of one tile: the f-strings of create_chart, kept as their parts
\* (count, play word, name); recent tracks carry the name alone.
Label(dt, item) ==
    IF dt = "recenttracks"
    THEN <<item.name>>
    ELSE <<PyFormat(item.playcount), format_plays(item.playcount), item.name>>

\* def chunks(l, n): successive n-sized chunks of l
RECURSIVE chunks(_, _)
chunks(l, n) ==
    IF Len(l) = 0 THEN <<>>
    ELSE <<SubSeq(l, 1, Min(n, Len(l)))>> \o chunks(SubSeq(l, Min(n, Len(l)) + 1, Len(l)), n)

\* The inner loop of create_graph: paste one row left to right at height y.
PasteRow(chunked, y) ==
    [c \in 1..Len(chunked) |-> [tile |-> chunked[c], x |-> TileSize * (c - 1), y |-> y]]

\* The outer loop of create_graph: rows top to bottom.
RECURSIVE PasteRows(_, _)
PasteRows(images, y) ==
    IF Len(images) = 0 THEN <<>>
    ELSE PasteRow(Head(images), y) \o PasteRows(Tail(images), y + TileSize)

Oversized_either(w, h) == w > MaxCanvas \/ h > MaxCanvas

\* `if w > 2100 and h > 2100` on final.size
Oversized(w, h) == w > MaxCanvas /\ h > MaxCanvas

\* def create_graph(data, w, h)
create_graph(data, w, h) ==
    LET dimensions == <<TileSize * w, TileSize * h>>
        cells == PasteRows(chunks(data, w), 0)
        fw == dimensions[1]     \* w, h = final.size
        fh == dimensions[2]
    IN  [bound |-> TRUE,
         canvas |-> dimensions,
         cells |-> cells,
         resized |-> Oversized(fw, fh),
         size |-> IF Oversized(fw, fh) THEN <<MaxCanvas, MaxCanvas>> ELSE dimensions]

\* Image.open(BytesIO(item[1])) succeeds on every item
Decodable(data) == \A k \in 1..Len(data) : data[k].img.ok

\* The annotated tiles charts / gen_track_chart hand to create_graph, in order.
Rendered(data) == [k \in 1..Len(data) |-> [label |-> data[k].label, src |-> data[k].img.url]]

\* async def charts(data, w, h), for data that decodes
charts(data, w, h) == create_graph(Rendered(data), w, h)

\* async def gen_track_chart(data, w, h), for data that decodes
gen_track_chart(data, w, h) == create_graph(Rendered(data), w, h)

\* .replace("/avatar70s/", "/300x300/") on the src of a listing row
Upgrade(src) ==
    CASE src = "avatar70s/a" -> "300x300/a"
      [] src = "avatar70s/b" -> "300x300/b"
      [] OTHER -> src

\* The list comprehension over the chartlist-image cells of one page.
PageImages(rows) == [k \in 1..Len(rows) |-> Upgrade(rows[k])]

\* The assembly loop of scrape_artists_for_chart over the gathered responses.
RECURSIVE AssembleImages(_, _, _)
AssembleImages(responses, images, n) ==
    IF Len(responses) = 0 THEN images
    ELSE IF Len(images) >= n THEN images
    ELSE AssembleImages(Tail(responses), images \o PageImages(Head(responses)), n)

\* range(1, math.ceil(amount / 50) + 1)
Pages(n) == 1..Ceil(n, PageSize)

Gather_completion_order(ts, order) == [k \in 1..Len(order) |-> ts[order[k]].rows]

\* asyncio.gather(*tasks): the results in the order of the tasks
Gather(ts, order) == [p \in 1..Len(order) |-> ts[p].rows]

CacheHit_never(ref, cache) == FALSE

\* `ref in chart_data`
CacheHit(ref, cache) == ref \in DOMAIN cache

GridTooLarge_off_by_one(h, w) == h + w > MaxGridSum + 1

\* `if height + width > 31`
GridTooLarge(h, w) == h + w > MaxGridSum

-----------------------------------------------------------------------------
(* What the environment can send *)

RequestedTypes == DATATYPES \cup {"toptracks"}

\* (width, height) of the requests of the pipeline run
Dims == {<<1, 1>>, <<2, 1>>, <<16, 16>>}

PlayCounts == {PyInt(0), PyInt(1), PyInt(2), PyStr("1")}

ImageRefs == {"", "300x300/a", "300x300/b"}

ScrapeSrcs == {"avatar70s/a", "avatar70s/b"}

AllRefs == ImageRefs \cup {Upgrade(src) : src \in ScrapeSrcs}

ErrorStatuses == {404, 503}

\* What one entry of the provider's list can hold, per metric: artist entries
\* carry no artwork the code reads, track entries no playcount.
ItemChoices(dt) ==
    CASE dt = "albums" -> [playcount : PlayCounts, image : ImageRefs]
      [] dt = "artists" -> [playcount : PlayCounts, image : {""}]
      [] OTHER -> [playcount : {PyInt(0)}, image : ImageRefs]

\* Lists in rank order; an entry is named after its rank.
ItemLists(dt) ==
    UNION {{[k \in 1..n |-> [name |-> k, playcount |-> f[k].playcount, image |-> f[k].image]] :
                f \in [1..n -> ItemChoices(dt)]} : n \in 0..MaxItems}

NoItem == [name |-> 0, playcount |-> PyInt(0), image |-> ""]

Response(status, kind, shape, list, single) ==
    [bound |-> TRUE, status |-> status, kind |-> kind, shape |-> shape, list |-> list, single |-> single]

\* The provider's answers: no answer at all, a body that is not JSON, a JSON
\* error report (keys error and message), or the data of the metric; the
\* track container of recenttracks is a list or one bare object.
ProviderResponses(dt) ==
    {Response(0, "neterr", "list", <<>>, NoItem)}
    \cup {Response(st, "nonjson", "list", <<>>, NoItem) : st \in {200} \cup ErrorStatuses}
    \cup {Response(st, "error", "list", <<>>, NoItem) : st \in {200} \cup ErrorStatuses}
    \cup {Response(st, "data", "list", <<>>, NoItem) : st \in ErrorStatuses}
    \cup {Response(200, "data", "list", l, NoItem) : l \in ItemLists(dt)}
    \cup IF dt = "recenttracks"
         THEN {Response(200, "data", "dict", <<>>, l[1]) : l \in {m \in ItemLists(dt) : Len(m) = 1}}
         ELSE {}

\* The src attributes of the chartlist-image cells of a listing page, in document order.
RowLists == UNION {[1..n -> ScrapeSrcs] : n \in 0..MaxRows}

Pending == [state |-> "pending", rows |-> <<>>]

PageResults == {[state |-> "done", rows |-> rows] : rows \in RowLists}
               \cup {[state |-> "failed", rows |-> <<>>]}

NoGet == [ref |-> "", first |-> "none", second |-> "none", active |-> FALSE]

Bytes(url, status, ok) == [url |-> url, status |-> status, ok |-> ok]

-----------------------------------------------------------------------------
(* The request *)

Finish(o) == pc' = "done" /\ outcome' = o

\* lastfm_chart up to its first await: validation, then the provider request.
lastfm_chart ==
    /\ pc = "start"
    /\ IF GridTooLarge(height, width)
       THEN Finish(HTTPException(400, "Height and width cannot be greater than 31")) /\ net' = net
       ELSE IF datatype \notin DATATYPES
       THEN Finish(HTTPException(400, "Invalid datatype")) /\ net' = net
       ELSE /\ pc' = "await_provider"
            /\ net' = [net EXCEPT !.provider = @ + 1]
            /\ outcome' = outcome
    /\ UNCHANGED <<datatype, width, height, response, content, items, i, chart, chart_data, img,
                   lastget, amount, tasks, done_order, scraped_images, calls>>

\* create_chart up to its first await, called with the provider's data.
create_chart(data) ==
    IF datatype = "artists"
    THEN /\ pc' = "scrape"
         /\ amount' = width * height
         /\ UNCHANGED <<items, i>>
    ELSE /\ pc' = "loop"
         /\ items' = IF datatype = "recenttracks" /\ data.shape = "dict"
                     THEN Take(<<data.single>>, width * height)
                     ELSE Take(data.list, width * height)
         /\ i' = 1
         /\ amount' = amount

\* The provider answers: the rest of lastfm_chart up to the call of create_chart.
provider_response ==
    /\ pc = "await_provider"
    /\ \E r \in ProviderResponses(datatype) :
         /\ response' = r
         /\ IF r.kind = "neterr"
            THEN Finish(Crash("ClientConnectorError")) /\ UNCHANGED <<content, items, i, amount>>
            ELSE IF r.kind = "nonjson"
            THEN \* ContentTypeError is suppressed; line 71 then reads the unbound `content`
                 Finish(Crash("UnboundLocalError")) /\ UNCHANGED <<content, items, i, amount>>
            ELSE /\ content' = r
                 /\ IF r.kind = "error" \/ r.status # 200
                    THEN /\ IF r.kind = "error"
                            THEN Finish(HTTPException(r.status, "message of the provider"))
                            ELSE Finish(Crash("KeyError"))
                         /\ UNCHANGED <<items, i, amount>>
                    ELSE create_chart(r) /\ outcome' = outcome
    /\ UNCHANGED <<datatype, width, height, chart, chart_data, img, lastget, tasks,
                   done_order, scraped_images, net, calls>>

-----------------------------------------------------------------------------
(* scrape_artists_for_chart *)

\* Lines 243-250: one fetch task per page, then the await of gather.
scrape_artists_for_chart ==
    /\ pc = "scrape"
    /\ tasks' = [p \in Pages(amount) |-> Pending]
    /\ done_order' = <<>>
    /\ net' = [net EXCEPT !.page = @ + Cardinality(Pages(amount))]
    /\ pc' = "gather"
    /\ UNCHANGED <<datatype, width, height, response, content, items, i, chart, chart_data, img,
                   lastget, amount, scraped_images, calls, outcome>>

\* One page fetch ends, with the text of the page or with a client error.
fetch(p) ==
    /\ pc = "gather"
    /\ p \in DOMAIN tasks
    /\ tasks[p].state = "pending"
    /\ \E res \in PageResults : tasks' = [tasks EXCEPT ![p] = res]
    /\ done_order' = Append(done_order, p)
    /\ UNCHANGED <<pc, datatype, width, height, response, content, items, i, chart, chart_data, img,
                   lastget, amount, scraped_images, net, calls, outcome>>

\* gather re-raises the exception of a failed fetch; nothing in the request catches it.
gather_raises ==
    /\ pc = "gather"
    /\ \E p \in DOMAIN tasks : tasks[p].state = "failed"
    /\ Finish(Crash("ClientError"))
    /\ UNCHANGED <<datatype, width, height, response, content, items, i, chart, chart_data, img,
                   lastget, amount, tasks, done_order, scraped_images, net, calls>>

\* Every fetch succeeded: lines 252-263, then create_chart up to its loop.
gather_returns ==
    /\ pc = "gather"
    /\ \A p \in DOMAIN tasks : tasks[p].state = "done"
    /\ scraped_images' = AssembleImages(Gather(tasks, done_order), <<>>, amount)
    /\ items' = Take(content.list, width * height)
    /\ i' = 1
    /\ pc' = "loop"
    /\ UNCHANGED <<datatype, width, height, response, content, chart, chart_data, img,
                   lastget, amount, tasks, done_order, net, calls, outcome>>

-----------------------------------------------------------------------------
(* The loop of create_chart and get_img *)

\* The image reference of the item the loop is at.
CurrentRef == IF datatype = "artists" THEN scraped_images[i] ELSE items[i].image

\* chart.append(...), and for recent tracks the gen_track_chart call inside the loop.
AppendTile(bytes) ==
    LET tile == [label |-> Label(datatype, items[i]), img |-> bytes]
        grown == Append(chart, tile)
    IN  /\ chart' = grown
        /\ i' = i + 1
        /\ IF datatype = "recenttracks"
           THEN IF Decodable(grown)
                THEN /\ img' = gen_track_chart(grown, width, height)
                     /\ pc' = "loop"
                     /\ outcome' = outcome
                ELSE /\ Finish(Crash("UnidentifiedImageError"))
                     /\ img' = img
           ELSE /\ pc' = "loop"
                /\ img' = img
                /\ outcome' = outcome

\* After the loop: charts(...) for albums and artists, then `return img` and the response.
ReturnChart ==
    /\ UNCHANGED <<i, chart, chart_data, lastget, net, calls>>
    /\ IF datatype = "recenttracks"
       THEN /\ img' = img
            /\ IF img.bound THEN Finish(StreamingResponse) ELSE Finish(Crash("UnboundLocalError"))
       ELSE IF Decodable(chart)
            THEN img' = charts(chart, width, height) /\ Finish(StreamingResponse)
            ELSE img' = img /\ Finish(Crash("UnidentifiedImageError"))

\* One turn of the loop up to its await: a cache hit appends the tile, a miss calls get_img.
chart_loop ==
    /\ pc = "loop"
    /\ IF i > Len(items)
       THEN ReturnChart
       ELSE IF datatype = "artists" /\ i > Len(scraped_images)
       THEN /\ Finish(Crash("IndexError"))
            /\ UNCHANGED <<i, chart, chart_data, img, lastget, net, calls>>
       ELSE IF CacheHit(CurrentRef, chart_data)
       THEN /\ AppendTile(chart_data[CurrentRef])
            /\ UNCHANGED <<chart_data, lastget, net, calls>>
       ELSE \* get_img(ref): session.get(url or NO_IMAGE_PLACEHOLDER)
            /\ lastget' = [ref |-> CurrentRef, first |-> "none", second |-> "none", active |-> TRUE]
            /\ calls' = [calls EXCEPT ![CurrentRef] = @ + 1]
            /\ net' = [net EXCEPT !.image = @ + 1]
            /\ pc' = "get1"
            /\ UNCHANGED <<i, chart, chart_data, img, outcome>>
    /\ UNCHANGED <<datatype, width, height, response, content, items, amount, tasks, done_order,
                   scraped_images>>

\* `url or NO_IMAGE_PLACEHOLDER`
FirstUrl(url) == IF url = "" THEN NO_IMAGE_PLACEHOLDER ELSE url

\* get_img returns bytes: chart_data[ref] = chart_img, then the append.
StoreAndAppend(bytes) ==
    /\ chart_data' = (lastget.ref :> bytes) @@ chart_data
    /\ AppendTile(bytes)

\* The first GET of get_img ends: 200 returns the body, another status asks
\* for the placeholder, a client error leaves get_img as an exception.
get_img_first ==
    /\ pc = "get1"
    /\ \E o \in {"ok", "non200", "neterr"} :
         /\ lastget' = [lastget EXCEPT !.first = o, !.active = (o = "non200")]
         /\ IF o = "ok"
            THEN StoreAndAppend(Bytes(FirstUrl(lastget.ref), 200, TRUE)) /\ net' = net
            ELSE IF o = "non200"
            THEN /\ pc' = "get2"
                 /\ net' = [net EXCEPT !.image = @ + 1]
                 /\ UNCHANGED <<i, chart, chart_data, img, outcome>>
            ELSE /\ Finish(Crash("ClientConnectorError"))
                 /\ UNCHANGED <<i, chart, chart_data, img, net>>
    /\ UNCHANGED <<datatype, width, height, response, content, items, amount, tasks, done_order,
                   scraped_images, calls>>

\* The GET of the placeholder ends: its body is returned whatever the status
\* (the body of an error answer may or may not decode as an image).
get_img_placeholder ==
    /\ pc = "get2"
    /\ \E o \in {"ok", "non200", "neterr"} :
         /\ lastget' = [lastget EXCEPT !.second = o, !.active = FALSE]
         /\ IF o = "ok"
            THEN StoreAndAppend(Bytes(NO_IMAGE_PLACEHOLDER, 200, TRUE))
            ELSE IF o = "non200"
            THEN \E ok \in BOOLEAN : StoreAndAppend(Bytes(NO_IMAGE_PLACEHOLDER, 404, ok))
            ELSE /\ Finish(Crash("ClientConnectorError"))
                 /\ UNCHANGED <<i, chart, chart_data, img>>
    /\ UNCHANGED <<datatype, width, height, response, content, items, amount, tasks, done_order,
                   scraped_images, net, calls>>

-----------------------------------------------------------------------------
(* The request pipeline *)

Init ==
    /\ pc = "start"
    /\ datatype \in RequestedTypes
    /\ \E d \in Dims : width = d[1] /\ height = d[2]
    /\ response = Unbound
    /\ content = Unbound
    /\ items = <<>>
    /\ i = 1
    /\ chart = <<>>
    /\ chart_data = <<>>
    /\ img = Unbound
    /\ lastget = NoGet
    /\ amount = 0
    /\ tasks = <<>>
    /\ done_order = <<>>
    /\ scraped_images = <<>>
    /\ net = [provider |-> 0, page |-> 0, image |-> 0]
    /\ calls = [r \in AllRefs |-> 0]
    /\ outcome = NoOutcome

Next ==
    \/ lastfm_chart
    \/ provider_response
    \/ scrape_artists_for_chart
    \/ \E p \in 1..Ceil(amount, PageSize) : fetch(p)
    \/ gather_raises
    \/ gather_returns
    \/ chart_loop
    \/ get_img_first
    \/ get_img_placeholder

Spec == Init /\ [][Next]_vars

-----------------------------------------------------------------------------
(* Validation alone, over every width and height up to MaxDim *)

InitValidation ==
    /\ pc = "start"
    /\ datatype \in RequestedTypes
    /\ width \in 1..MaxDim
    /\ height \in 1..MaxDim
    /\ response = Unbound
    /\ content = Unbound
    /\ items = <<>>
    /\ i = 1
    /\ chart = <<>>
    /\ chart_data = <<>>
    /\ img = Unbound
    /\ lastget = NoGet
    /\ amount = 0
    /\ tasks = <<>>
    /\ done_order = <<>>
    /\ scraped_images = <<>>
    /\ net = [provider |-> 0, page |-> 0, image |-> 0]
    /\ calls = [r \in AllRefs |-> 0]
    /\ outcome = NoOutcome

NextValidation == lastfm_chart

SpecValidation == InitValidation /\ [][NextValidation]_vars

-----------------------------------------------------------------------------
(* The compositor, over every valid width and height up to MaxDim: the       *)
(* request stands at the end of the album loop, every tile fetched.          *)

GraphAlbums(n) == [k \in 1..n |-> [name |-> k, playcount |-> PyInt(2), image |-> "300x300/a"]]

GraphBytes == Bytes("300x300/a", 200, TRUE)

InitGraph ==
    /\ pc = "loop"
    /\ datatype = "albums"
    /\ width \in 1..MaxDim
    /\ height \in 1..MaxDim
    /\ ~GridTooLarge(height, width)
    /\ \E n \in 0..MaxItems :
         /\ response = Response(200, "data", "list", GraphAlbums(n), NoItem)
         /\ content = response
         /\ items = Take(GraphAlbums(n), width * height)
    /\ i = Len(items) + 1
    /\ chart = [k \in 1..Len(items) |-> [label |-> Label(datatype, items[k]), img |-> GraphBytes]]
    /\ chart_data = IF Len(items) = 0 THEN <<>> ELSE ("300x300/a" :> GraphBytes)
    /\ img = Unbound
    /\ lastget = IF Len(items) = 0 THEN NoGet
                 ELSE [ref |-> "300x300/a", first |-> "ok", second |-> "none", active |-> FALSE]
    /\ amount = 0
    /\ tasks = <<>>
    /\ done_order = <<>>
    /\ scraped_images = <<>>
    /\ net = [provider |-> 1, page |-> 0, image |-> IF Len(items) = 0 THEN 0 ELSE 1]
    /\ calls = [r \in AllRefs |-> IF r = "300x300/a" /\ Len(items) > 0 THEN 1 ELSE 0]
    /\ outcome = NoOutcome

NextGraph == chart_loop

SpecGraph == InitGraph /\ [][NextGraph]_vars

-----------------------------------------------------------------------------
(* The artist scraper, from the call in create_chart to its return *)

\* (width, height) of the artist requests: 1, 2, 50, 51, 100 and 102 images
ScrapeDims == {<<1, 1>>, <<2, 1>>, <<5, 10>>, <<3, 17>>, <<10, 10>>, <<6, 17>>}

InitScrape ==
    /\ pc = "scrape"
    /\ datatype = "artists"
    /\ \E d \in ScrapeDims : width = d[1] /\ height = d[2]
    /\ response = Response(200, "data", "list", <<>>, NoItem)
    /\ content = response
    /\ items = <<>>
    /\ i = 1
    /\ chart = <<>>
    /\ chart_data = <<>>
    /\ img = Unbound
    /\ lastget = NoGet
    /\ amount = width * height
    /\ tasks = <<>>
    /\ done_order = <<>>
    /\ scraped_images = <<>>
    /\ net = [provider |-> 1, page |-> 0, image |-> 0]
    /\ calls = [r \in AllRefs |-> 0]
    /\ outcome = NoOutcome

NextScrape ==
    \/ scrape_artists_for_chart
    \/ \E p \in 1..Ceil(amount, PageSize) : fetch(p)
    \/ gather_raises
    \/ gather_returns

SpecScrape == InitScrape /\ [][NextScrape]_vars

-----------------------------------------------------------------------------
(* Properties *)

NoNetwork == net = [provider |-> 0, page |-> 0, image |-> 0]

\* The list the provider delivered, with a bare track object read as one entry.
ProviderItems == IF content.shape = "dict" THEN <<content.single>> ELSE content.list

\* The image reference of the k-th item of the loop.
TileRef(k) == IF datatype = "artists" THEN scraped_images[k] ELSE items[k].image

\* No image GET of the request ended in a client error or a non-200 answer.
EveryImageFetched ==
    /\ lastget.first \in {"none", "ok"}
    /\ lastget.second = "none"
    /\ \A k \in 1..Len(chart) : chart[k].img.status = 200

\* C1: a request with width + height > 31 or an unsupported metric is rejected
\* with status 400 before any network request is issued; a request with
\* width + height = 31 and a supported metric passes validation.
C1_ValidationBeforeNetwork ==
    pc # "start" =>
        /\ (width + height > 31 \/ datatype \notin {"albums", "artists", "recenttracks"})
             => /\ pc = "done"
                /\ outcome.kind = "http_error"
                /\ outcome.status = 400
                /\ NoNetwork
        /\ (width + height = 31 /\ datatype \in {"albums", "artists", "recenttracks"})
             => /\ outcome.kind = "none"
                /\ pc = "await_provider"

\* C1 witness: the 16 x 16 request of a supported metric, rejected with no network request.
C1_Witness ==
    /\ pc = "done"
    /\ width = 16 /\ height = 16
    /\ datatype = "albums"
    /\ outcome.status = 400
    /\ NoNetwork

\* C2 (as claimed, for albums and recent tracks): a request that passed
\* validation, got the provider's data and fetched every image it asked for
\* ends with exactly min(items delivered, width * height) tiles, the k-th
\* built from the k-th item; this includes the empty list.
C2_TilesInRankOrder ==
    (/\ pc = "done"
     /\ content.bound
     /\ content.kind = "data" /\ content.status = 200
     /\ datatype # "artists"
     /\ EveryImageFetched)
    => /\ outcome.kind = "image"
       /\ img.bound
       /\ Len(img.cells) = Min(Len(ProviderItems), width * height)
       /\ \A k \in 1..Len(img.cells) :
            img.cells[k].tile.label = Label(datatype, ProviderItems[k])

\* C3: within one request get_img is invoked at most once per image reference
\* and exactly once for the reference of every processed item, so a finished
\* chart took as many invocations as its items have distinct references; items
\* sharing a reference carry identical bytes; at most one invocation is running.
C3_OneFetchPerReference ==
    /\ \A r \in AllRefs : calls[r] <= 1
    /\ \A k \in 1..Len(chart) : calls[TileRef(k)] = 1
    /\ \A j, k \in 1..Len(chart) : TileRef(j) = TileRef(k) => chart[j].img = chart[k].img
    /\ lastget.active => calls[lastget.ref] = 1
    /\ outcome.kind = "image" =>
         Cardinality({r \in AllRefs : calls[r] > 0}) = Cardinality({TileRef(k) : k \in 1..Len(chart)})

\* C3 witness: a finished chart of two items that share one reference, fetched once.
C3_Witness ==
    /\ outcome.kind = "image"
    /\ Len(chart) = 2
    /\ TileRef(1) = TileRef(2)
    /\ calls[TileRef(1)] = 1
    /\ net.image = 1

\* C4: the canvas is (300 * width, 300 * height); the output is (2100, 2100)
\* exactly when both canvas dimensions exceed 2100, and the canvas size otherwise.
C4_CanvasAndOutputSize ==
    (pc = "done" /\ outcome.kind = "image") =>
        /\ img.canvas = <<300 * width, 300 * height>>
        /\ img.resized <=> (300 * width > 2100 /\ 300 * height > 2100)
        /\ img.resized => img.size = <<2100, 2100>>
        /\ ~img.resized => img.size = <<300 * width, 300 * height>>

\* C4 witness: an 8 x 8 chart, composed at 2400 x 2400 and put out at 2100 x 2100.
C4_Witness ==
    /\ pc = "done"
    /\ outcome.kind = "image"
    /\ width = 8 /\ height = 8
    /\ img.canvas = <<2400, 2400>>
    /\ img.size = <<2100, 2100>>

\* C5 (as claimed): whenever the GET of an item's own image failed (non-200
\* answer or client error), get_img goes on to fetch the placeholder.
C5_FallbackOnEveryFailure ==
    (lastget.ref # "" /\ lastget.first \in {"non200", "neterr"})
    => (pc = "get2" \/ lastget.second # "none")

\* C6 (as claimed): when the provider's answer reports an error or has a
\* non-200 status, its body JSON or not, the request ends with an error that
\* carries the provider's status and message, and nothing was fetched.
C6_ProviderErrorPassthrough ==
    (/\ response.bound
     /\ response.kind \in {"error", "nonjson"}
     /\ (response.kind = "error" \/ response.status # 200))
    => /\ pc = "done"
       /\ outcome = HTTPException(response.status, "message of the provider")
       /\ chart = <<>>
       /\ net.page = 0 /\ net.image = 0

\* C7 (as claimed): an artists request whose scrape returned fewer images than
\* there are artists to render, and whose image GETs all succeeded, ends with a chart.
C7_ScrapeShortfallStillCharts ==
    (/\ pc = "done"
     /\ datatype = "artists"
     /\ Len(scraped_images) < Len(items)
     /\ EveryImageFetched)
    => outcome.kind = "image"

\* The playcount the provider delivered reads 1.
IsOnePlay(plays) == PyFormat(plays) = "1"

\* C8 (as claimed): the play word of every album or artist tile is "play" when
\* the delivered playcount is 1 and "plays" otherwise.
C8_PlayWord ==
    datatype \in {"albums", "artists"} =>
        \A k \in 1..Len(chart) :
            chart[k].label[2] = IF IsOnePlay(items[k].playcount) THEN "play" ELSE "plays"

\* The images of pages 1..k, concatenated in page order.
RECURSIVE ConcatPages(_)
ConcatPages(k) == IF k = 0 THEN <<>> ELSE ConcatPages(k - 1) \o PageImages(tasks[k].rows)

\* One fetch was issued for each page 1..ceil(amount / 50), all before any result is awaited.
PagesFannedOut ==
    pc \in {"gather", "loop"} =>
        /\ DOMAIN tasks = 1..((amount + 49) \div 50)
        /\ net.page = (amount + 49) \div 50

\* C9 (as claimed): the scraper returns the page lists concatenated in page
\* order and cut to the first `amount` entries.
C9_TruncatedToCount ==
    /\ PagesFannedOut
    /\ pc = "loop" =>
         scraped_images = Take(ConcatPages((amount + 49) \div 50), amount)

\* C9 (amended): the scraper returns whole pages concatenated in page order,
\* whatever the order the fetches completed in: pages 1..k, where page k is
\* the last one reached before the list held `amount` entries. Nothing is cut.
C9_PageOrderUntruncated ==
    /\ PagesFannedOut
    /\ pc = "loop" =>
         \E k \in 0..((amount + 49) \div 50) :
            /\ scraped_images = ConcatPages(k)
            /\ k > 0 => Len(ConcatPages(k - 1)) < amount
            /\ k = (amount + 49) \div 50 \/ Len(ConcatPages(k)) >= amount

\* C9 witness: page 2 completed before page 1, the pages differ, and the
\* scraper returned.
C9_Witness ==
    /\ pc = "loop"
    /\ Len(done_order) >= 2
    /\ done_order[1] = 2
    /\ Len(tasks[1].rows) > 0
    /\ Len(tasks[2].rows) > 0
    /\ tasks[1].rows # tasks[2].rows
    /\ scraped_images = PageImages(tasks[1].rows) \o PageImages(tasks[2].rows)

\* C10 (as claimed): when the GET of the placeholder fails (non-200 answer or
\* client error), get_img returns no bytes and the request fails.
C10_PlaceholderFailureIsFatal ==
    lastget.second \in {"non200", "neterr"} =>
        /\ pc = "done"
        /\ outcome.kind = "crash"
        /\ lastget.ref \notin DOMAIN chart_data

====
